---- MODULE Spec2Model ----
(***************************************************************************)
(* Student Feedback Analyzer (src/main.py): a Streamlit script with two    *)
(* pages.  Every script run is one step: a run of the "Submit Feedback"    *)
(* page with the Submit button pressed, or a run of the "Dashboard" page.  *)
(* The feedback table lives in MySQL and persists between runs.            *)
(***************************************************************************)
EXTENDS Integers, Sequences, FiniteSets, TLC

VARIABLES db,    \* the feedback table, rows in insertion order
          now,   \* the database server's clock at its last INSERT
          form,  \* widget values of the Submit page at the last press
          out    \* what the last script run rendered and called

vars == <<db, now, form, out>>

\* ---------------------------------------------------------------- bounds
MaxRecords == 2      \* rows the table may hold (Spec)
MaxAggRecords == 3   \* rows the table may hold (SpecAgg)
MaxComments == 2     \* rows the table may hold (SpecAnalyze)

\* ------------------------------------------------------- program constants
SubjectOptions == <<"Physics", "Chemistry", "Mathematics", "Computer Science", "English">>
RatingMin == 1
RatingMax == 5
RatingDefault == 4

\* ------------------------------------------------------------------ text
\* A text is a sequence of characters; " " is whitespace, every other
\* character used here is a word such as "good".
IsSpace(c) == c = " "

RECURSIVE LStrip(_)
LStrip(t) == IF t # <<>> /\ IsSpace(Head(t)) THEN LStrip(Tail(t)) ELSE t

RECURSIVE RStrip(_)
RStrip(t) ==
  IF t # <<>> /\ IsSpace(t[Len(t)]) THEN RStrip(SubSeq(t, 1, Len(t) - 1)) ELSE t

\* str.strip()
Strip(t) == RStrip(LStrip(t))

\* " ".join(list)
RECURSIVE Join(_)
Join(list) ==
  IF list = <<>> THEN <<>>
  ELSE IF Len(list) = 1 THEN list[1]
  ELSE list[1] \o <<" ">> \o Join(Tail(list))

\* ---------------------------------------------------- remote response text
\* The response text is a sequence of tokens.  Punctuation tokens are the
\* single characters the regular expression and the JSON grammar look at;
\* string, number and literal tokens are JSON scalars without brackets in
\* them; a word token is prose (or a markdown fence) that is no JSON.
P(c) == [k |-> "p", s |-> c, n |-> 0]
S(x) == [k |-> "str", s |-> x, n |-> 0]
Nm(i) == [k |-> "num", s |-> "", n |-> i]
L(x) == [k |-> "lit", s |-> x, n |-> 0]
W == [k |-> "word", s |-> "w", n |-> 0]

\* Parsed JSON values (Python objects): t is the type tag.
JStr(x) == [t |-> "str", s |-> x, n |-> 0, items |-> <<>>]
JNum(i) == [t |-> "num", s |-> "", n |-> i, items |-> <<>>]
JLit(x) == [t |-> "lit", s |-> x, n |-> 0, items |-> <<>>]
JArr(xs) == [t |-> "arr", s |-> "", n |-> 0, items |-> xs]
\* a dict: items is a sequence of <<key, value>> pairs, keys distinct
JObj(kvs) == [t |-> "obj", s |-> "", n |-> 0, items |-> kvs]
JNone == JLit("null")

Positions(text, c) == {i \in 1..Len(text) : text[i] = P(c)}

Max(set) == CHOOSE x \in set : \A y \in set : y <= x
Min(set) == CHOOSE x \in set : \A y \in set : x <= y

\* re.search(r'(\{.*\}|\[.*\])', text, re.S): the leftmost position where
\* either alternative matches; .* is greedy, so the span runs to the last
\* closing character of the same kind.
MatchStarts(text) ==
  {i \in 1..Len(text) :
     \/ text[i] = P("{") /\ \E j \in Positions(text, "}") : j > i
     \/ text[i] = P("[") /\ \E j \in Positions(text, "]") : j > i}

extract_json(text) ==
  IF MatchStarts(text) = {} THEN text
  ELSE LET i == Min(MatchStarts(text))
           close == IF text[i] = P("{") THEN "}" ELSE "]"
       IN SubSeq(text, i, Max(Positions(text, close)))

\* json.loads: a recursive-descent parse of one value, which must use up
\* the whole text.  Each parser returns [ok, val, next].
Fail == [ok |-> FALSE, val |-> JNone, next |-> 0]
Ok(v, i) == [ok |-> TRUE, val |-> v, next |-> i]

At(text, i, c) == i <= Len(text) /\ text[i] = P(c)

\* dict semantics: a repeated key keeps its first position, last value
Put(kvs, key, v) ==
  IF \E i \in 1..Len(kvs) : kvs[i][1] = key
  THEN [i \in 1..Len(kvs) |-> IF kvs[i][1] = key THEN <<key, v>> ELSE kvs[i]]
  ELSE Append(kvs, <<key, v>>)

RECURSIVE ParseValue(_, _)
RECURSIVE ParseElems(_, _, _)
RECURSIVE ParseMembers(_, _, _)

ParseElems(text, i, acc) ==
  LET r == ParseValue(text, i) IN
  IF ~r.ok THEN Fail
  ELSE IF At(text, r.next, ",") THEN ParseElems(text, r.next + 1, Append(acc, r.val))
  ELSE IF At(text, r.next, "]") THEN Ok(JArr(Append(acc, r.val)), r.next + 1)
  ELSE Fail

ParseMembers(text, i, acc) ==
  IF ~(i + 1 <= Len(text) /\ text[i].k = "str" /\ At(text, i + 1, ":")) THEN Fail
  ELSE LET r == ParseValue(text, i + 2) IN
       IF ~r.ok THEN Fail
       ELSE IF At(text, r.next, ",")
            THEN ParseMembers(text, r.next + 1, Put(acc, text[i].s, r.val))
       ELSE IF At(text, r.next, "}")
            THEN Ok(JObj(Put(acc, text[i].s, r.val)), r.next + 1)
       ELSE Fail

ParseValue(text, i) ==
  IF i > Len(text) THEN Fail
  ELSE IF text[i].k = "str" THEN Ok(JStr(text[i].s), i + 1)
  ELSE IF text[i].k = "num" THEN Ok(JNum(text[i].n), i + 1)
  ELSE IF text[i].k = "lit" THEN Ok(JLit(text[i].s), i + 1)
  ELSE IF At(text, i, "[")
       THEN IF At(text, i + 1, "]") THEN Ok(JArr(<<>>), i + 2)
            ELSE ParseElems(text, i + 1, <<>>)
  ELSE IF At(text, i, "{")
       THEN IF At(text, i + 1, "}") THEN Ok(JObj(<<>>), i + 2)
            ELSE ParseMembers(text, i + 1, <<>>)
  ELSE Fail

json_loads(text) ==
  LET r == ParseValue(text, 1) IN
  IF r.ok /\ r.next = Len(text) + 1 THEN [ok |-> TRUE, val |-> r.val]
  ELSE [ok |-> FALSE, val |-> JNone]

\* ------------------------------------------------------------ DB helpers
\* SQL NULL (NaN in the DataFrame); insert_feedback never stores it.
NULL == <<"<NULL>">>

\* AUTO_INCREMENT primary key of the feedback table
NextId(table) == Len(table) + 1

\* DEFAULT CURRENT_TIMESTAMP of column date_submitted: the clock when the
\* INSERT runs
CurrentTimestamp == now'

\* a bug: the VALUES tuple lists subject before student_name
insert_feedback_swapped(student_name, subject, rating, comments) ==
  Append(db, [id |-> NextId(db), student_name |-> subject, subject |-> student_name,
              rating |-> rating, comments |-> comments,
              date_submitted |-> CurrentTimestamp])

\* a bug: REPLACE keyed on (student_name, subject) instead of INSERT
insert_feedback_replacing(student_name, subject, rating, comments) ==
  IF \E i \in 1..Len(db) : db[i].student_name = student_name /\ db[i].subject = subject
  THEN [i \in 1..Len(db) |->
          IF db[i].student_name = student_name /\ db[i].subject = subject
          THEN [db[i] EXCEPT !.rating = rating, !.comments = comments,
                             !.date_submitted = CurrentTimestamp]
          ELSE db[i]]
  ELSE Append(db, [id |-> NextId(db), student_name |-> student_name,
                   subject |-> subject, rating |-> rating, comments |-> comments,
                   date_submitted |-> CurrentTimestamp])

insert_feedback(student_name, subject, rating, comments) ==
  Append(db, [id |-> NextId(db), student_name |-> student_name, subject |-> subject,
              rating |-> rating, comments |-> comments,
              date_submitted |-> CurrentTimestamp])

Range(seq) == {seq[i] : i \in 1..Len(seq)}

Perms(n) == {p \in [1..n -> 1..n] : \A i, j \in 1..n : p[i] = p[j] => i = j}

\* a bug: ORDER BY date_submitted ASC
fetch_all_feedback_ascending ==
  {[i \in 1..Len(db) |-> db[p[i]]] : p \in
     {q \in Perms(Len(db)) :
        \A i, j \in 1..Len(db) :
           i < j => db[q[i]].date_submitted <= db[q[j]].date_submitted}}

\* SELECT * FROM feedback ORDER BY date_submitted DESC: every row, newest
\* first; SQL leaves the order of rows with equal timestamps open, so this
\* is the set of possible results.
fetch_all_feedback ==
  {[i \in 1..Len(db) |-> db[p[i]]] : p \in
     {q \in Perms(Len(db)) :
        \A i, j \in 1..Len(db) :
           i < j => db[q[i]].date_submitted >= db[q[j]].date_submitted}}

\* ------------------------------------------------------------ aggregation
RECURSIVE Sum(_)
Sum(seq) == IF seq = <<>> THEN 0 ELSE Head(seq) + Sum(Tail(seq))

RECURSIVE Gcd(_, _)
Gcd(a, b) == IF b = 0 THEN a ELSE Gcd(b, a % b)

\* a bug: integer division
MeanTruncated(ratings) == [num |-> Sum(ratings) \div Len(ratings), den |-> 1]

\* Series.mean(): sum / count, kept as a fraction in lowest terms
Mean(ratings) ==
  LET g == Gcd(Sum(ratings), Len(ratings))
  IN [num |-> Sum(ratings) \div g, den |-> Len(ratings) \div g]

Column(df, col) == [i \in 1..Len(df) |-> df[i][col]]

\* df[df["subject"] == selected_subject]
RowsOf(df, subject) == SelectSeq(df, LAMBDA row : row.subject = subject)

\* df.groupby("subject")["rating"].mean()
GroupMeans(df) ==
  [s \in Range(Column(df, "subject")) |-> Mean(Column(RowsOf(df, s), "rating"))]

\* ... .sort_values(ascending=False): the groups by descending mean; the
\* sort is not stable, so groups with equal means come in either order.
AverageRatingPerSubject(df) ==
  LET means == GroupMeans(df)
      groups == DOMAIN means
      n == Cardinality(groups)
  IN {[i \in 1..n |-> [subject |-> order[i], mean |-> means[order[i]]]] :
        order \in {o \in [1..n -> groups] :
                     /\ \A i, j \in 1..n : o[i] = o[j] => i = j
                     /\ \A i, j \in 1..n :
                          i < j => means[o[i]].num * means[o[j]].den
                                     >= means[o[j]].num * means[o[i]].den}}

\* df["subject"].unique(): the subjects in order of first appearance
RECURSIVE Unique(_)
Unique(col) ==
  IF col = <<>> THEN <<>>
  ELSE LET rest == Unique(SubSeq(col, 1, Len(col) - 1))
       IN IF col[Len(col)] \in Range(rest) THEN rest ELSE Append(rest, col[Len(col)])

\* Series.dropna().tolist()
dropna(col) == SelectSeq(col, LAMBDA c : c # NULL)

\* ---------------------------------------------- AI: batch classification
\* a bug: 0-based ids
NeutralLabelsFromZero(n) ==
  JArr([i \in 1..n |-> JObj(<<<<"id", JNum(i - 1)>>, <<"sentiment", JStr("Neutral")>>>>)])

\* the fallback list of line 117
NeutralLabels(n) ==
  JArr([i \in 1..n |-> JObj(<<<<"id", JNum(i)>>, <<"sentiment", JStr("Neutral")>>>>)])

\* classify_sentiments_bulk(comments) when the remote model answers `text`:
\* the value returned, and whether the remote model was called
classify_sentiments_bulk(comments, text) ==
  IF comments = <<>> THEN [called |-> FALSE, value |-> JArr(<<>>)]
  ELSE LET parsed == json_loads(extract_json(text))
       IN IF parsed.ok THEN [called |-> TRUE, value |-> parsed.val]
          ELSE [called |-> TRUE, value |-> NeutralLabels(Len(comments))]

\* summarize_feedback(comments) when the remote model answers `text`
summarize_feedback(comments, text) ==
  IF comments = <<>> THEN [called |-> FALSE, kind |-> "none", text |-> <<>>]
  ELSE [called |-> TRUE, kind |-> "text", text |-> Strip(text)]

\* --------------------------------------------------------- sentiment tally
\* counts = {"Positive":0, "Negative":0, "Neutral":0}: key/count pairs in
\* insertion order
InitialCounts ==
  <<<<JStr("Positive"), 0>>, <<JStr("Negative"), 0>>, <<JStr("Neutral"), 0>>>>

\* `for item in labels`: the items Python iterates over, or a TypeError
Iterate(labels) ==
  IF labels.t = "arr" THEN [ok |-> TRUE, items |-> labels.items]
  ELSE IF labels.t = "obj"
       THEN [ok |-> TRUE,
             items |-> [i \in 1..Len(labels.items) |-> JStr(labels.items[i][1])]]
  ELSE IF labels.t = "str"
       THEN [ok |-> TRUE, items |-> IF labels.s = "" THEN <<>> ELSE <<JStr(labels.s)>>]
  ELSE [ok |-> FALSE, items |-> <<>>]

\* item.get("sentiment", "Neutral") of a dict
Get(item, key, default) ==
  IF \E i \in 1..Len(item.items) : item.items[i][1] = key
  THEN item.items[CHOOSE i \in 1..Len(item.items) : item.items[i][1] = key][2]
  ELSE default

Hashable(v) == v.t \in {"str", "num", "lit"}

\* counts[lab] = counts.get(lab, 0) + 1
Count(counts, lab) ==
  IF \E i \in 1..Len(counts) : counts[i][1] = lab
  THEN [i \in 1..Len(counts) |->
          IF counts[i][1] = lab THEN <<lab, counts[i][2] + 1>> ELSE counts[i]]
  ELSE Append(counts, <<lab, 1>>)

\* the loop of lines 203-205; it stops at the first exception
RECURSIVE TallyLoop(_, _)
TallyLoop(items, counts) ==
  IF items = <<>> THEN [crash |-> FALSE, counts |-> counts]
  ELSE IF Head(items).t # "obj" THEN [crash |-> TRUE, counts |-> counts]
  ELSE LET lab == Get(Head(items), "sentiment", JStr("Neutral"))
       IN IF ~Hashable(lab) THEN [crash |-> TRUE, counts |-> counts]
          ELSE TallyLoop(Tail(items), Count(counts, lab))

Tally(labels) ==
  IF ~Iterate(labels).ok THEN [crash |-> TRUE, counts |-> InitialCounts]
  ELSE TallyLoop(Iterate(labels).items, InitialCounts)

\* ------------------------------------------------------------ Streamlit UI
\* the widgets of the Submit page before the user touches them
FormDefaults ==
  [name |-> "", subject |-> SubjectOptions[1], rating |-> RatingDefault,
   comments |-> <<>>]

\* a bug: the slider starts at 0
SliderValuesFromZero == 0..RatingMax

\* the values st.slider("Rating", 1, 5, 4) can return
SliderValues == RatingMin..RatingMax

\* nothing rendered yet
Blank ==
  [kind |-> "init", msg |-> "", table |-> <<>>, avg |-> <<>>, selected |-> "",
   wordcloud |-> "", comments_list |-> <<>>, response |-> <<>>, labels |-> JNone,
   sentiment |-> "", counts |-> <<>>, summary |-> [kind |-> "", text |-> <<>>],
   remote_calls |-> 0]

Init ==
  /\ db = <<>>
  /\ now = 0
  /\ form = FormDefaults
  /\ out = Blank

\* a bug: `and` for `or`
BothFieldsBlank(subject, comments) == subject = "" /\ comments = <<>>

\* line 156: not subject or not comments
RequiredFieldBlank(subject, comments) == subject = "" \/ comments = <<>>

\* lines 148-160: a run of the Submit page with the button pressed; the
\* server clock has advanced by dt since the last INSERT
Submit(name, subject, rating, comments, dt, cap) ==
  /\ subject \in Range(SubjectOptions)
  /\ rating \in SliderValues
  /\ ~RequiredFieldBlank(subject, comments) => Len(db) < cap
  /\ form' = [name |-> name, subject |-> subject, rating |-> rating,
              comments |-> comments]
  /\ IF RequiredFieldBlank(subject, comments)
     THEN /\ UNCHANGED <<db, now>>
          /\ out' = [Blank EXCEPT !.kind = "submit", !.msg = "error"]
     ELSE /\ now' = now + dt
          /\ db' = insert_feedback(name, subject, rating, comments)
          /\ out' = [Blank EXCEPT !.kind = "submit", !.msg = "success"]

\* lines 180-217: the subject-wise analysis of the selected subject, when
\* the remote model answers `text` to the classification prompt and
\* `summary` to the summarization prompt
Analysis(df, avg, selected_subject, text, summary) ==
  LET subj_df == RowsOf(df, selected_subject)
      cloud_text == Join(dropna(Column(subj_df, "comments")))
      comments_list == dropna(Column(subj_df, "comments"))
      labels == classify_sentiments_bulk(comments_list, text)
      tally == Tally(labels.value)
      shown == [Blank EXCEPT
                  !.kind = "dashboard", !.table = df, !.avg = avg,
                  !.selected = selected_subject,
                  !.wordcloud = IF Strip(cloud_text) # <<>> THEN "shown" ELSE "none",
                  !.comments_list = comments_list]
  IN IF comments_list = <<>>
     THEN [shown EXCEPT !.sentiment = "none",
                        !.summary = [kind |-> "none", text |-> <<>>]]
     ELSE IF tally.crash
     THEN [shown EXCEPT !.response = text, !.labels = labels.value,
                        !.sentiment = "crash", !.remote_calls = 1]
     ELSE LET s == summarize_feedback(comments_list, summary)
          IN [shown EXCEPT !.response = text, !.labels = labels.value,
                           !.sentiment = "tally", !.counts = tally.counts,
                           !.summary = [kind |-> s.kind, text |-> s.text],
                           !.remote_calls = 2]

\* lines 163-217: a run of the Dashboard page
Dashboard(text, summary) ==
  /\ \E df \in fetch_all_feedback :
       IF df = <<>>
       THEN out' = [Blank EXCEPT !.kind = "dashboard"]
       ELSE \E avg \in AverageRatingPerSubject(df) :
            \E selected_subject \in Range(Unique(Column(df, "subject"))) :
               /\ selected_subject # ""
               /\ out' = Analysis(df, avg, selected_subject, text, summary)
  /\ form' = FormDefaults
  /\ UNCHANGED <<db, now>>

\* ------------------------------------------------------------------ inputs
StudentNames == {"", "Ann"}
Subjects == {SubjectOptions[1], SubjectOptions[2]}
Comments == {<<>>, <<" ">>, <<"good">>}
SummaryTexts == {<<" ", "good", " ">>}

\* a filled form, and the forms that differ from it in one widget
FilledForm ==
  [name |-> "Ann", subject |-> SubjectOptions[1], rating |-> RatingDefault,
   comments |-> <<"good">>]

Forms ==
  {[FilledForm EXCEPT !.name = x] : x \in StudentNames}
  \cup {[FilledForm EXCEPT !.subject = x] : x \in Subjects}
  \cup {[FilledForm EXCEPT !.rating = x] : x \in SliderValues}
  \cup {[FilledForm EXCEPT !.comments = x] : x \in Comments}

Label(id, sentiment) ==
  <<P("{"), S("id"), P(":"), Nm(id), P(","), S("sentiment"), P(":"), S(sentiment), P("}")>>
Array1(a) == <<P("[")>> \o a \o <<P("]")>>
Array2(a, b) == <<P("[")>> \o a \o <<P(",")>> \o b \o <<P("]")>>

\* remote answers to the classification prompt
BasicResponses == {<<W>> \o Array1(Label(1, "Positive"))}

Responses ==
  BasicResponses \cup
  { Array1(Label(1, "Positive")),
    <<W, W>>,
    Array2(Label(1, "Positive"), Label(2, "Negative")),
    Array2(Label(1, "Positive"), Label(1, "Negative")),
    Array1(Label(3, "Positive")),
    Array1(Label(1, "Mixed")),
    Label(1, "Positive"),
    <<Nm(5)>>,
    <<S("Positive")>>,
    <<L("null")>>,
    Array1(<<S("Positive")>>),
    <<>>,
    <<P("[")>> \o Label(1, "Positive"),
    <<W, P("["), W, P("]"), W>> \o Array1(Label(1, "Positive")),
    Array1(<<P("{"), S("id"), P(":"), Nm(1), P("}")>>),
    <<P("{"), P("}")>>,
    Array1(<<P("{"), S("sentiment"), P(":"), P("["), P("]"), P("}")>>),
    Array1(<<P("{"), S("sentiment"), P(":"), L("null"), P("}")>>) }

\* ---------------------------------------------------------- specifications
\* the whole application: submissions that may fall in the same second
Next ==
  \/ \E f \in Forms, dt \in {0, 1} :
        Submit(f.name, f.subject, f.rating, f.comments, dt, MaxRecords)
  \/ \E text \in BasicResponses, summary \in SummaryTexts : Dashboard(text, summary)

Spec == Init /\ [][Next]_vars

\* the aggregation view: any subject and rating, submissions seconds apart
NextAgg ==
  \/ \E subject \in Subjects, rating \in SliderValues :
        Submit("", subject, rating, <<"good">>, 1, MaxAggRecords)
  \/ \E text \in BasicResponses, summary \in SummaryTexts : Dashboard(text, summary)

SpecAgg == Init /\ [][NextAgg]_vars

\* the text analysis: any subject, comment and remote answer
NextAnalyze ==
  \/ \E subject \in Subjects, comments \in Comments :
        Submit("", subject, RatingDefault, comments, 1, MaxComments)
  \/ \E text \in Responses, summary \in SummaryTexts : Dashboard(text, summary)

SpecAnalyze == Init /\ [][NextAnalyze]_vars

\* ------------------------------------------------------------- properties
LastRow == db[Len(db)]

\* C1: a Submit press with a non-empty subject and non-empty comments adds
\* exactly one row to the table, keeps every row that was there, and the
\* new row's student_name, subject, rating and comments are the submitted
\* values.
C1_ValidSubmissionAppendsOne ==
  [][(out'.kind = "submit" /\ form'.subject # "" /\ form'.comments # <<>>)
       => /\ Len(db') = Len(db) + 1
          /\ SubSeq(db', 1, Len(db)) = db
          /\ db'[Len(db')].student_name = form'.name
          /\ db'[Len(db')].subject = form'.subject
          /\ db'[Len(db')].rating = form'.rating
          /\ db'[Len(db')].comments = form'.comments]_vars

\* a valid submission (of a whitespace-only comment, without a name) into
\* a table that already holds a row
C1_Witness ==
  /\ out.kind = "submit" /\ out.msg = "success"
  /\ Len(db) = 2
  /\ db[1].student_name = ""
  /\ form.comments = <<" ">>
  /\ LastRow.comments = form.comments /\ LastRow.subject = form.subject

C6_AppendOnly ==
  [][/\ Len(db') >= Len(db)
     /\ SubSeq(db', 1, Len(db)) = db
     /\ (out'.kind = "dashboard" => db' = db)]_vars

\* a student's second submission for the same subject, both rows stored,
\* then viewed on the dashboard
C6_Witness ==
  /\ Len(db) = 2
  /\ db[1].student_name = db[2].student_name /\ db[1].subject = db[2].subject
  /\ db[1].rating # db[2].rating
  /\ out.kind = "dashboard" /\ Len(out.table) = 2

\* C7: every stored row has an integer rating r with 1 <= r <= 5.
C7_RatingInRange ==
  \A i \in 1..Len(db) : db[i].rating \in Int /\ 1 <= db[i].rating /\ db[i].rating <= 5

\* both ends of the range are stored
C7_Witness ==
  /\ \E i \in 1..Len(db) : db[i].rating = 1
  /\ \E i \in 1..Len(db) : db[i].rating = 5

Position(table, row) == CHOOSE i \in 1..Len(table) : table[i] = row

\* C9: the table the dashboard shows holds every stored row exactly once,
\* unchanged, by descending date_submitted: a row submitted later, with a
\* strictly greater timestamp, comes before the earlier one.
C9_FetchAllNewestFirst ==
  out.kind = "dashboard" =>
    /\ Len(out.table) = Len(db)
    /\ \A i \in 1..Len(db) :
         Cardinality({j \in 1..Len(out.table) : out.table[j] = db[i]}) = 1
    /\ \A i, j \in 1..Len(out.table) :
         i < j => out.table[i].date_submitted >= out.table[j].date_submitted
    /\ \A a, b \in 1..Len(db) :
         (a < b /\ db[a].date_submitted < db[b].date_submitted)
            => Position(out.table, db[b]) < Position(out.table, db[a])

\* two rows submitted seconds apart, the later one shown first
C9_Witness ==
  /\ out.kind = "dashboard"
  /\ Len(db) = 2
  /\ db[1].date_submitted < db[2].date_submitted
  /\ out.table = <<db[2], db[1]>>

\* the ratings stored under a subject, in insertion order
StoredRatings(subject) ==
  LET rows == SelectSeq(db, LAMBDA row : row.subject = subject)
  IN [i \in 1..Len(rows) |-> rows[i].rating]

\* C8: the aggregation view lists exactly the subjects that have a stored
\* row, each once, each with the arithmetic mean of its ratings (their sum
\* divided by their count); ratings 5, 3, 4 under one subject give 4.0.
C8_MeanPerSubject ==
  out.kind = "dashboard" =>
    /\ {out.avg[i].subject : i \in 1..Len(out.avg)} = {db[k].subject : k \in 1..Len(db)}
    /\ \A i, j \in 1..Len(out.avg) : out.avg[i].subject = out.avg[j].subject => i = j
    /\ \A i \in 1..Len(out.avg) :
         LET ratings == StoredRatings(out.avg[i].subject)
         IN /\ out.avg[i].mean.den > 0
            /\ out.avg[i].mean.num * Len(ratings) = Sum(ratings) * out.avg[i].mean.den
            /\ ratings = <<5, 3, 4>> => out.avg[i].mean = [num |-> 4, den |-> 1]

\* ratings 5, 3, 4 under one subject, shown as 4.0
C8_Witness ==
  /\ out.kind = "dashboard"
  /\ Len(out.avg) = 1
  /\ StoredRatings(out.avg[1].subject) = <<5, 3, 4>>
  /\ out.avg[1].mean = [num |-> 4, den |-> 1]

\* the classification prompt was sent and the answer became labels
Classified == out.kind = "dashboard" /\ out.comments_list # <<>>

ParseFailed == ~json_loads(extract_json(out.response)).ok

IsObject(v) == v.t = "obj"

\* C2: when json.loads rejects what extract_json took from the remote
\* answer, classify_sentiments_bulk of N >= 1 comments returns N entries,
\* the i-th with id i and sentiment Neutral.
C2_FallbackAllNeutral ==
  (Classified /\ ParseFailed) =>
    /\ out.labels.t = "arr"
    /\ Len(out.labels.items) = Len(out.comments_list)
    /\ \A i \in 1..Len(out.labels.items) :
         /\ IsObject(out.labels.items[i])
         /\ Get(out.labels.items[i], "id", JNone) = JNum(i)
         /\ Get(out.labels.items[i], "sentiment", JNone) = JStr("Neutral")

\* two comments, a prose answer, the fallback tallied
C2_Witness ==
  /\ Classified /\ ParseFailed
  /\ Len(out.comments_list) = 2
  /\ out.response = <<W, W>>
  /\ out.sentiment = "tally"

SentimentLabels == {JStr("Positive"), JStr("Negative"), JStr("Neutral")}

\* C3 (as claimed): whenever the remote answer parses, the result has
\* exactly N entries, each with a sentiment among Positive, Negative and
\* Neutral and a distinct id in 1..N.
C3_ParsedLabelsWellFormed ==
  (Classified /\ ~ParseFailed) =>
    /\ out.labels.t = "arr"
    /\ Len(out.labels.items) = Len(out.comments_list)
    /\ \A i \in 1..Len(out.labels.items) :
         /\ IsObject(out.labels.items[i])
         /\ Get(out.labels.items[i], "sentiment", JNone) \in SentimentLabels
         /\ Get(out.labels.items[i], "id", JNone).t = "num"
         /\ Get(out.labels.items[i], "id", JNone).n \in 1..Len(out.comments_list)
    /\ \A i, j \in 1..Len(out.labels.items) :
         Get(out.labels.items[i], "id", JNone) = Get(out.labels.items[j], "id", JNone)
            => i = j

\* the comments stored under a subject
StoredComments(subject) ==
  LET rows == SelectSeq(db, LAMBDA row : row.subject = subject)
  IN {rows[i].comments : i \in 1..Len(rows)}

\* C4 (as claimed): when every comment of the selected subject is missing,
\* empty or blank, the view reports nothing to classify and nothing to
\* summarize and calls the remote model not once.
C4_NoCommentsNoRemoteCall ==
  (/\ out.kind = "dashboard" /\ out.selected # ""
   /\ \A c \in StoredComments(out.selected) : c = NULL \/ Strip(c) = <<>>)
    => /\ out.sentiment = "none"
       /\ out.summary.kind = "none"
       /\ out.remote_calls = 0

RECURSIVE Total(_)
Total(counts) == IF counts = <<>> THEN 0 ELSE Head(counts)[2] + Total(Tail(counts))

\* C10 (as claimed): whatever the remote model answers, the sentiment step
\* ends without an unhandled exception and shows a tally whose keys are
\* Positive, Negative and Neutral and whose counts sum to N.
C10_TallyAlwaysShown ==
  Classified =>
    /\ out.sentiment = "tally"
    /\ {out.counts[i][1] : i \in 1..Len(out.counts)} = SentimentLabels
    /\ Total(out.counts) = Len(out.comments_list)

====
